---- MODULE Spec2Model ----
(***************************************************************************)
(* A model of llvfs.py: the asset-type registry AT, LLVFSEntry, the LLVFS  *)
(* store over an index file and a data file, PathMap, and the pack/unpack  *)
(* driver.  Files are sequences of bytes; the index file holds 34-byte     *)
(* little-endian records, the data file payloads padded to 1024 bytes.     *)
(*                                                                         *)
(* One store is open at a time, and what it wrote is on disk when it is    *)
(* closed.  A call that raises leaves its exception's name in ret.err.     *)
(* Keys are 16-byte values; the str form that add and fromKey also take is *)
(* turned into one by uuid.UUID before use and is not modelled apart.      *)
(* None is the integer -1 where the code passes it for an integer.         *)
(*                                                                         *)
(* Six specifications share the variables, each leaving the others' idle: *)
(*   SpecStore     every LLVFS call in any order                           *)
(*   SpecAddOnly   the same without read on a store opened for writing     *)
(*   SpecEntry     LLVFSEntry construction and its two setters             *)
(*   SpecPathMap   PathMap.map and the two lookups                         *)
(*   SpecRegistry  the lookups of AT                                       *)
(*   SpecCli       the script run in pack mode, then in unpack mode        *)
(***************************************************************************)
EXTENDS Integers, Sequences, FiniteSets, TLC

VARIABLES
    diskExists,   \* whether the index/data pair exists on disk
    indexDisk,    \* bytes of the index file
    dataDisk,     \* bytes of the data file
    vfs,          \* the open LLVFS object (mode "none": no store is open)
    ret,          \* outcome of the last LLVFS call
    added,        \* history: the add calls that returned since the pair was truncated
    openLen,      \* history: length of the data file when the store was opened
    appended,     \* history: padded lengths written by add since the store was opened
    calls,        \* number of add calls made on the open store
    entry,        \* an LLVFSEntry under test: its _size and _length
    pathMapping,  \* PathMap.pathMapping: path -> key
    keyMapping,   \* PathMap.keyMapping: key -> path
    pmLast,       \* the arguments of the last PathMap.map call
    atQuery,      \* the name and the code the registry is asked about
    cli           \* the pack/unpack driver's scenario

vars == <<diskExists, indexDisk, dataDisk, vfs, ret, added, openLen, appended,
          calls, entry, pathMapping, keyMapping, pmLast, atQuery, cli>>

storeVars == <<diskExists, indexDisk, dataDisk, vfs, ret, added, openLen,
               appended, calls>>

(***************************************************************************)
(* Bounds and program constants                                            *)
(***************************************************************************)
MaxAdds == 2

BlockSize == 1024

RecordSize == 34

U16 == 65536

\* Python's None, where the code passes it in place of an integer
PyNone == -1

\* an empty dict
EmptyDict == [x \in {} |-> ""]

\* d[k] = v
DictSet(d, k, v) == [x \in (DOMAIN d) \cup {k} |-> IF x = k THEN v ELSE d[x]]

Max(a, b) == IF a >= b THEN a ELSE b

Min(a, b) == IF a <= b THEN a ELSE b

RECURSIVE Zeros(_)
Zeros(n) == IF n <= 0 THEN <<>> ELSE IF n = 1 THEN <<0>>
            ELSE Zeros(n \div 2) \o Zeros(n - (n \div 2))

(***************************************************************************)
(* math.ceil(n / 1024) and round(n / 1024) (round half to even)            *)
(***************************************************************************)
CeilDiv(n) == IF n % BlockSize = 0 THEN n \div BlockSize ELSE (n \div BlockSize) + 1

RoundDiv(n) ==
    LET q == n \div BlockSize
        r == n % BlockSize
    IN  IF 2 * r < BlockSize THEN q
        ELSE IF 2 * r > BlockSize THEN q + 1
        ELSE IF q % 2 = 0 THEN q ELSE q + 1

(***************************************************************************)
(* struct.Struct("<III16sHI"): pack and iter_unpack                        *)
(***************************************************************************)
LE(n, width) == [i \in 1..width |-> (n \div (256 ^ (i - 1))) % 256]

FromLE(bytes) ==
    LET RECURSIVE Go(_)
        Go(i) == IF i > Len(bytes) THEN 0 ELSE bytes[i] * (256 ^ (i - 1)) + Go(i + 1)
    IN  Go(1)

\* pack raises struct.error for a field out of range.  The upper limit of an I
\* field, 2^32 - 1, is above every integer of this model, so only its lower
\* limit can fail here.
PackOk(offset, length, accesstime, filetype, size) ==
    /\ offset >= 0
    /\ length >= 0
    /\ accesstime >= 0
    /\ filetype \in 0..(U16 - 1)
    /\ size >= 0

Pack(offset, length, accesstime, key, filetype, size) ==
    LE(offset, 4) \o LE(length, 4) \o LE(accesstime, 4) \o key
        \o LE(filetype, 2) \o LE(size, 4)

Unpack(rec) ==
    [offset     |-> FromLE(SubSeq(rec, 1, 4)),
     length     |-> FromLE(SubSeq(rec, 5, 8)),
     accesstime |-> FromLE(SubSeq(rec, 9, 12)),
     key        |-> SubSeq(rec, 13, 28),
     filetype   |-> FromLE(SubSeq(rec, 29, 30)),
     size       |-> FromLE(SubSeq(rec, 31, 34))]

\* iter_unpack raises struct.error unless the buffer is a whole number of records
IterUnpackOk(buf) == Len(buf) % RecordSize = 0

IterUnpack(buf) ==
    [i \in 1..(Len(buf) \div RecordSize) |->
        Unpack(SubSeq(buf, (i - 1) * RecordSize + 1, i * RecordSize))]

(***************************************************************************)
(* AT: the asset-type registry                                             *)
(***************************************************************************)
NoneStr == "None"

Row(d, t, h, l, f, k) ==
    [description |-> d, typename |-> t, humanname |-> h, link |-> l, fetch |-> f, know |-> k]

\* the keys of asset_types, in the order the dict holds them
AssetCodes ==
    <<0, 1, 2, 3, 4, 5, 6, 7, 8, 10, 11, 12, 13, 17, 18, 19, 20, 21, 22,
      24, 25, 49, 40, 45, 255, -2>>

\* the values of asset_types, in the same order
AssetRows ==
    << Row("TEXTURE", "texture", "texture", TRUE, FALSE, TRUE),
       Row("SOUND", "sound", "sound", TRUE, TRUE, TRUE),
       Row("CALLINGCARD", "callcard", "calling card", TRUE, FALSE, FALSE),
       Row("LANDMARK", "landmark", "landmark", TRUE, TRUE, TRUE),
       Row("SCRIPT", "script", "legacy script", TRUE, FALSE, FALSE),
       Row("CLOTHING", "clothing", "clothing", TRUE, TRUE, TRUE),
       Row("OBJECT", "object", "object", TRUE, FALSE, FALSE),
       Row("NOTECARD", "notecard", "note card", TRUE, FALSE, TRUE),
       Row("CATEGORY", "category", "folder", TRUE, FALSE, FALSE),
       Row("LSL_TEXT", "lsltext", "lsl2 script", TRUE, FALSE, FALSE),
       Row("LSL_BYTECODE", "lslbyte", "lsl bytecode", TRUE, FALSE, FALSE),
       Row("TEXTURE_TGA", "txtr_tga", "tga texture", TRUE, FALSE, FALSE),
       Row("BODYPART", "bodypart", "body part", TRUE, TRUE, TRUE),
       Row("SOUND_WAV", "snd_wav", "sound", TRUE, FALSE, FALSE),
       Row("IMAGE_TGA", "img_tga", "targa image", TRUE, FALSE, FALSE),
       Row("IMAGE_JPEG", "jpeg", "jpeg image", TRUE, FALSE, FALSE),
       Row("ANIMATION", "animatn", "animation", TRUE, TRUE, TRUE),
       Row("GESTURE", "gesture", "gesture", TRUE, TRUE, TRUE),
       Row("SIMSTATE", "simstate", "simstate", FALSE, FALSE, FALSE),
       Row("LINK", "link", "sym link", FALSE, FALSE, TRUE),
       Row("FOLDER_LINK", "link_f", "sym folder link", FALSE, FALSE, TRUE),
       Row("MESH", "mesh", "mesh", FALSE, FALSE, FALSE),
       Row("WIDGET", "widget", "widget", FALSE, FALSE, FALSE),
       Row("PERSON", "person", "person", FALSE, FALSE, FALSE),
       Row("UNKNOWN", "invalid", NoneStr, FALSE, FALSE, FALSE),
       Row("NONE", "-1", NoneStr, FALSE, FALSE, FALSE) >>

CodeSet == {AssetCodes[i] : i \in 1..Len(AssetCodes)}

\* asset_types[code], for a code of the table
AssetType(code) == AssetRows[CHOOSE i \in 1..Len(AssetCodes) : AssetCodes[i] = code]

\* AT.__init__: cvars, the canonical names in table order
CVars == [i \in 1..Len(AssetCodes) |-> AssetRows[i].description]

CanonicalNames == {CVars[i] : i \in 1..Len(CVars)}

\* AT.__getitem__
GetItem(k) == IF k \notin CodeSet THEN AssetType(255) ELSE AssetType(k)

\* tuple.index, counted from 0
TupleIndex(t, x) == (CHOOSE i \in 1..Len(t) : t[i] = x /\ \A j \in 1..(i - 1) : t[j] # x) - 1

\* AT.__getattr__, which Python calls for a name that is no attribute of the class
GetAttr(k) ==
    IF k \in CanonicalNames THEN [err |-> "", code |-> TupleIndex(CVars, k)]
    ELSE [err |-> "AttributeError", code |-> 0]

\* AT.fromFileExtension: the first code whose type name is v, else None
FromFileExtension(v) ==
    IF \E i \in 1..Len(AssetCodes) : AssetRows[i].typename = v
    THEN AssetCodes[CHOOSE i \in 1..Len(AssetCodes) :
                        /\ AssetRows[i].typename = v
                        /\ \A j \in 1..(i - 1) : AssetRows[j].typename # v]
    ELSE PyNone

(***************************************************************************)
(* LLVFSEntry                                                              *)
(***************************************************************************)
EntryInitLength(size, length) ==
    IF length = PyNone \/ length < size THEN BlockSize * CeilDiv(size) ELSE length

LLVFSEntry(offset, size, length, key, accesstime, filetype) ==
    [offset |-> offset, size |-> size, length |-> EntryInitLength(size, length),
     key |-> key, accesstime |-> accesstime, filetype |-> filetype]

\* a read that takes the padded length for the size
EntrySize_Padded(e) == e.length

\* the size property
EntrySize(e) == e.size

\* the length property: the getter returns _size
EntryLength(e) == e.size

SetSize(e, v) ==
    [e EXCEPT !.length = IF e.length < v THEN BlockSize * CeilDiv(v) ELSE e.length,
              !.size = v]

SetLength(e, v) ==
    LET w == IF v % BlockSize # 0 THEN BlockSize * RoundDiv(v) ELSE v
    IN  [e EXCEPT !.length = IF w < e.size THEN BlockSize * CeilDiv(e.size) ELSE w]

(***************************************************************************)
(* LLVFS: the store over the index file and the data file                  *)
(***************************************************************************)
Modes == {"r", "w", "a", "x"}

\* uuid.UUID(int = n).bytes
KeyBytes(n) == [i \in 1..16 |-> IF i = 16 THEN n ELSE 0]

Keys == {KeyBytes(1), KeyBytes(2)}

\* 18 is IMAGE_TGA
ImageTga == 18

MakePayload(n, seed) == [i \in 1..n |-> (seed + i) % 256]

\* The add calls tried: payloads of 0 bytes, 2 bytes, one whole block and one
\* block plus a byte, two keys, a given and a defaulted access time, and a file
\* type of None, which is what AT.fromFileExtension returns for a miss.
AddInputs ==
    { [key |-> KeyBytes(1), filetype |-> ImageTga, data |-> MakePayload(2, 7), accesstime |-> 5],
      [key |-> KeyBytes(1), filetype |-> ImageTga, data |-> MakePayload(BlockSize + 1, 100), accesstime |-> PyNone],
      [key |-> KeyBytes(2), filetype |-> ImageTga, data |-> MakePayload(BlockSize, 7), accesstime |-> 5],
      [key |-> KeyBytes(2), filetype |-> ImageTga, data |-> MakePayload(0, 7), accesstime |-> 5],
      [key |-> KeyBytes(2), filetype |-> PyNone, data |-> MakePayload(2, 100), accesstime |-> 5] }

\* round(datetime.datetime.now().timestamp())
Clock == {9}

ReadOffsets == {0, 1024, 3000}

ReadSizes == {2, 1025}

NoStore == [mode |-> "none", entries |-> <<>>, keymap |-> <<>>, dataPos |-> 0]

Ret(op, err) ==
    [op |-> op, err |-> err, mode |-> "", existed |-> FALSE, data |-> <<>>,
     offset |-> 0, size |-> 0, eof |-> 0, hit |-> 0]

\* file.write(bytes) at position pos; a position past the end leaves a hole of zeros
WriteAt(file, pos, bytes) ==
    IF Len(bytes) = 0 THEN file
    ELSE LET base == IF pos > Len(file) THEN file \o Zeros(pos - Len(file)) ELSE file
         IN  SubSeq(base, 1, pos) \o bytes \o SubSeq(base, pos + Len(bytes) + 1, Len(base))

\* a read that fills up with zeros what the file does not hold
ReadAt_Filled(file, pos, size) ==
    LET got == SubSeq(file, pos + 1, Min(pos + size, Len(file)))
    IN  got \o Zeros(size - Len(got))

\* file.seek(pos); file.read(size): at most size bytes, fewer at the end of the file
ReadAt(file, pos, size) == SubSeq(file, pos + 1, Min(pos + size, Len(file)))

\* loadIndexFile: one LLVFSEntry and one keymap item per record, in file order
LoadEntries(buf) ==
    LET recs == IterUnpack(buf)
    IN  [i \in 1..Len(recs) |->
            LLVFSEntry(recs[i].offset, recs[i].size, recs[i].length, recs[i].key,
                       recs[i].accesstime, recs[i].filetype)]

LoadKeymap(buf) ==
    LET recs == IterUnpack(buf)
    IN  [i \in 1..Len(recs) |-> recs[i].key]

\* a lookup that lets the last equal item win
ListIndex_Last(list, x) == CHOOSE i \in 1..Len(list) : list[i] = x /\ \A j \in (i + 1)..Len(list) : list[j] # x

\* list.index: the position of the first equal item
ListIndex(list, x) == CHOOSE i \in 1..Len(list) : list[i] = x /\ \A j \in 1..(i - 1) : list[j] # x

\* LLVFS.__init__.  A mode outside r, w, a raises ValueError at the check; one
\* that passes the check only in lower case raises it from open().
Open(mode) ==
    /\ vfs.mode = "none"
    /\ calls' = 0
    /\ IF mode \notin {"r", "w", "a"}
       THEN /\ ret' = [Ret("open", "ValueError") EXCEPT !.mode = mode, !.existed = diskExists]
            /\ UNCHANGED <<diskExists, indexDisk, dataDisk, vfs, added, openLen, appended>>
       ELSE IF mode = "w"
       THEN \* open(.., "wb") creates or truncates both files
            /\ diskExists' = TRUE
            /\ indexDisk' = <<>>
            /\ dataDisk' = <<>>
            /\ vfs' = [NoStore EXCEPT !.mode = "w"]
            /\ added' = <<>>
            /\ openLen' = 0
            /\ appended' = 0
            /\ ret' = [Ret("open", "") EXCEPT !.mode = mode, !.existed = diskExists]
       ELSE IF mode = "a"
       THEN \* open(.., "ab") creates a missing file; loadIndexFile then reads a
            \* write-only handle
            /\ diskExists' = TRUE
            /\ ret' = [Ret("open", "UnsupportedOperation") EXCEPT
                          !.mode = mode, !.existed = diskExists]
            /\ UNCHANGED <<indexDisk, dataDisk, vfs, added, openLen, appended>>
       ELSE IF ~diskExists
       THEN /\ ret' = [Ret("open", "FileNotFoundError") EXCEPT !.mode = mode]
            /\ UNCHANGED <<diskExists, indexDisk, dataDisk, vfs, added, openLen, appended>>
       ELSE IF ~IterUnpackOk(indexDisk)
       THEN /\ ret' = [Ret("open", "struct.error") EXCEPT !.mode = mode, !.existed = TRUE]
            /\ UNCHANGED <<diskExists, indexDisk, dataDisk, vfs, added, openLen, appended>>
       ELSE /\ vfs' = [mode |-> "r", entries |-> LoadEntries(indexDisk),
                       keymap |-> LoadKeymap(indexDisk), dataPos |-> 0]
            /\ openLen' = Len(dataDisk)
            /\ appended' = 0
            /\ ret' = [Ret("open", "") EXCEPT !.mode = mode, !.existed = TRUE]
            /\ UNCHANGED <<diskExists, indexDisk, dataDisk, added>>

\* LLVFS.add on a writable data file whose cursor is at pos: the payload and its
\* zero padding are written first, the index record is packed afterwards
AddEffect(file, pos, key, filetype, data, at) ==
    LET length == BlockSize * CeilDiv(Len(data))
    IN  [data   |-> WriteAt(file, pos, data \o Zeros(length - Len(data))),
         pos    |-> pos + length,
         length |-> length,
         ok     |-> PackOk(pos, length, at, filetype, Len(data)),
         rec    |-> Pack(pos, length, at, key, filetype, Len(data))]

\* LLVFS.add
Add(key, filetype, data, accesstime, now) ==
    /\ vfs.mode # "none"
    /\ calls < MaxAdds
    /\ calls' = IF vfs.mode = "w" THEN calls + 1 ELSE calls
    /\ LET at  == IF accesstime = PyNone \/ accesstime = 0 THEN now ELSE accesstime
           eff == AddEffect(dataDisk, vfs.dataPos, key, filetype, data, at)
           r   == [Ret("add", "") EXCEPT !.offset = vfs.dataPos, !.size = Len(data),
                                         !.eof = Len(dataDisk), !.mode = vfs.mode]
       IN  IF vfs.mode = "r"
           THEN \* the data file is read-only: the first write raises
                /\ ret' = [r EXCEPT !.err = "UnsupportedOperation"]
                /\ UNCHANGED <<diskExists, indexDisk, dataDisk, vfs, added, openLen, appended>>
           ELSE /\ dataDisk' = eff.data
                /\ vfs' = [vfs EXCEPT !.dataPos = eff.pos]
                /\ appended' = appended + eff.length
                /\ IF eff.ok
                   THEN /\ indexDisk' = indexDisk \o eff.rec
                        /\ added' = Append(added, [key |-> key, filetype |-> filetype,
                                                   data |-> data, accesstime |-> at])
                        /\ ret' = r
                   ELSE /\ ret' = [r EXCEPT !.err = "struct.error"]
                        /\ UNCHANGED <<indexDisk, added>>
                /\ UNCHANGED <<diskExists, openLen>>

\* LLVFS.read
Read(op, offset, size, i) ==
    /\ vfs.mode # "none"
    /\ LET r == [Ret(op, "") EXCEPT !.offset = offset, !.size = size,
                                    !.eof = Len(dataDisk), !.mode = vfs.mode, !.hit = i]
       IN  IF vfs.mode = "w"
           THEN \* seek moves the cursor, then read raises on the write-only handle
                /\ vfs' = [vfs EXCEPT !.dataPos = offset]
                /\ ret' = [r EXCEPT !.err = "UnsupportedOperation"]
           ELSE LET bytes == ReadAt(dataDisk, offset, size)
                IN  /\ vfs' = [vfs EXCEPT !.dataPos = offset + Len(bytes)]
                    /\ ret' = [r EXCEPT !.data = bytes]
    /\ UNCHANGED <<diskExists, indexDisk, dataDisk, added, openLen, appended, calls>>

\* LLVFSEntry.read on the i-th entry of the store
EntryRead(i) ==
    /\ i \in 1..Len(vfs.entries)
    /\ Read("entryRead", vfs.entries[i].offset, EntrySize(vfs.entries[i]), i)

\* LLVFS.fromKey
FromKey(key) ==
    /\ vfs.mode # "none"
    /\ ret' = [Ret("fromKey", "") EXCEPT
                  !.mode = vfs.mode,
                  !.data = key,
                  !.hit = IF \E i \in 1..Len(vfs.keymap) : vfs.keymap[i] = key
                          THEN ListIndex(vfs.keymap, key) ELSE 0]
    /\ UNCHANGED <<diskExists, indexDisk, dataDisk, vfs, added, openLen, appended, calls>>

\* LLVFS.__del__
Close ==
    /\ vfs.mode # "none"
    /\ vfs' = NoStore
    /\ ret' = [Ret("close", "") EXCEPT !.mode = vfs.mode]
    /\ UNCHANGED <<diskExists, indexDisk, dataDisk, added, openLen, appended, calls>>

otherVars == <<entry, pathMapping, keyMapping, pmLast, atQuery, cli>>

OpenStore == (\E m \in Modes : Open(m)) /\ UNCHANGED otherVars

AddAsset ==
    /\ \E a \in AddInputs, n \in Clock : Add(a.key, a.filetype, a.data, a.accesstime, n)
    /\ UNCHANGED otherVars

ReadData ==
    /\ \E o \in ReadOffsets, s \in ReadSizes : Read("read", o, s, 0)
    /\ UNCHANGED otherVars

\* read called on a store that was opened for reading
ReadLoaded == vfs.mode = "r" /\ ReadData

ReadEntry == (\E i \in 1..Len(vfs.entries) : EntryRead(i)) /\ UNCHANGED otherVars

LookupKey == (\E k \in Keys : FromKey(k)) /\ UNCHANGED otherVars

CloseStore == Close /\ UNCHANGED otherVars

\* no pair on disk and no store open
StoreIdle ==
    /\ diskExists = FALSE
    /\ indexDisk = <<>>
    /\ dataDisk = <<>>
    /\ vfs = NoStore
    /\ ret = Ret("none", "")
    /\ added = <<>>
    /\ openLen = 0
    /\ appended = 0
    /\ calls = 0

EntryIdle == entry = LLVFSEntry(0, 0, PyNone, KeyBytes(1), 0, 0)

PathMapIdle == pathMapping = EmptyDict /\ keyMapping = EmptyDict /\ pmLast = <<"", "">>

RegistryIdle == atQuery = [op |-> "none", name |-> "", code |-> 0, err |-> ""]

CliIdle == cli = [phase |-> "none", files |-> <<>>, useMap |-> FALSE, tz |-> 0,
                  packErr |-> "", unpackErr |-> "", out |-> <<>>]

StoreInit == StoreIdle /\ EntryIdle /\ PathMapIdle /\ RegistryIdle /\ CliIdle

StoreNext == OpenStore \/ AddAsset \/ ReadData \/ ReadEntry \/ LookupKey \/ CloseStore

\* Every call of the store, in any order
SpecStore == StoreInit /\ [][StoreNext]_vars

AddOnlyNext == OpenStore \/ AddAsset \/ ReadLoaded \/ ReadEntry \/ LookupKey \/ CloseStore

\* The store with no read attempted on a store opened for writing
SpecAddOnly == StoreInit /\ [][AddOnlyNext]_vars

(***************************************************************************)
(* LLVFSEntry on its own: construction, then assignments to size and length *)
(***************************************************************************)
EntrySizes == {0, 1, 3, 512, 1023, 1024, 1025, 1536, 2047, 2048, 2049, 2560, 3000, 3072}

\* the lengths given: multiples of a block, values between, and None
EntryLengths == {PyNone, 0, 5, 512, 1000, 1024, 1536, 2000, 2048, 2560, 3072, 4096}

EntryInit ==
    /\ \E o \in {0, BlockSize}, s \in EntrySizes, l \in EntryLengths :
          entry = LLVFSEntry(o, s, l, KeyBytes(1), 0, 0)
    /\ StoreIdle /\ PathMapIdle /\ RegistryIdle /\ CliIdle

AssignSize ==
    /\ \E v \in EntrySizes : entry' = SetSize(entry, v)
    /\ UNCHANGED <<storeVars, pathMapping, keyMapping, pmLast, atQuery, cli>>

AssignLength ==
    /\ \E v \in EntryLengths \ {PyNone} : entry' = SetLength(entry, v)
    /\ UNCHANGED <<storeVars, pathMapping, keyMapping, pmLast, atQuery, cli>>

EntryNext == AssignSize \/ AssignLength

SpecEntry == EntryInit /\ [][EntryNext]_vars

\* C2 (as claimed): an entry's length is always a whole number of blocks and
\* never below its size.
C2_LengthInvariant ==
    /\ EntryLength(entry) % BlockSize = 0
    /\ EntryLength(entry) >= EntrySize(entry)

(***************************************************************************)
(* PathMap                                                                 *)
(***************************************************************************)
\* keys and paths are both strings; "x" is one that serves as either
PathKeys == {"k1", "k2", "x"}

Paths == {"p1", "p2", "x"}

FindPath(path) == IF path \in DOMAIN pathMapping THEN pathMapping[path] ELSE NoneStr

FindKey(key) == IF key \in DOMAIN keyMapping THEN keyMapping[key] ELSE NoneStr

\* a map that forgets the path table
MapPathMapping_Stale(key, path) == pathMapping

MapPathMapping(key, path) == DictSet(pathMapping, path, key)

MapKeyMapping(key, path) == DictSet(keyMapping, key, path)

\* PathMap.map
Map(key, path) ==
    /\ pathMapping' = MapPathMapping(key, path)
    /\ keyMapping' = MapKeyMapping(key, path)
    /\ pmLast' = <<key, path>>

MapCall ==
    /\ \E k \in PathKeys, p \in Paths : Map(k, p)
    /\ UNCHANGED <<storeVars, entry, atQuery, cli>>

PathMapInit == PathMapIdle /\ StoreIdle /\ EntryIdle /\ RegistryIdle /\ CliIdle

PathMapNext == MapCall

SpecPathMap == PathMapInit /\ [][PathMapNext]_vars

Mapped == pmLast # <<"", "">>

\* C3 (as claimed): right after map(K, P), findPath(K) is P and findKey(P) is K.
C3_FindByOwnName ==
    Mapped => FindPath(pmLast[1]) = pmLast[2] /\ FindKey(pmLast[2]) = pmLast[1]

\* C3 (amended): right after map(K, P), findPath(P) is K and findKey(K) is P:
\* findPath takes a path and gives its key, findKey takes a key and gives its path.
C3_FindByArgument ==
    Mapped => FindPath(pmLast[2]) = pmLast[1] /\ FindKey(pmLast[1]) = pmLast[2]

\* C3 witness: k1 was mapped to p2 and then to p1
C3_Witness ==
    /\ pmLast = <<"k1", "p1">>
    /\ "p2" \in DOMAIN pathMapping
    /\ pathMapping["p2"] = "k1"
    /\ FindKey("k1") = "p1"

\* C4 (as claimed): the two tables hold the same (key, path) pairs.
C4_MutuallyInverse ==
    {<<k, keyMapping[k]>> : k \in DOMAIN keyMapping}
        = {<<pathMapping[q], q>> : q \in DOMAIN pathMapping}

(***************************************************************************)
(* The registry on its own                                                 *)
(***************************************************************************)
\* the names asked for: every canonical name, and names that are none
QueryNames == CanonicalNames \cup {"FOO", "texture", "img_tga", "Texture"}

QueryCodes == (-3)..256

QueryExtensions == {"tga", "img_tga", "jpeg", "jpg", "texture", "sound", "-1", ""}

CodeNamed ==
    /\ \E n \in QueryNames :
          atQuery' = [op |-> "getattr", name |-> n, code |-> GetAttr(n).code,
                      err |-> GetAttr(n).err]
    /\ UNCHANGED <<storeVars, entry, pathMapping, keyMapping, pmLast, cli>>

Describe ==
    /\ \E c \in QueryCodes :
          atQuery' = [op |-> "getitem", name |-> GetItem(c).description, code |-> c,
                      err |-> ""]
    /\ UNCHANGED <<storeVars, entry, pathMapping, keyMapping, pmLast, cli>>

CodeForExtension ==
    /\ \E e \in QueryExtensions :
          atQuery' = [op |-> "fromFileExtension", name |-> e,
                      code |-> FromFileExtension(e), err |-> ""]
    /\ UNCHANGED <<storeVars, entry, pathMapping, keyMapping, pmLast, cli>>

RegistryInit == RegistryIdle /\ StoreIdle /\ EntryIdle /\ PathMapIdle /\ CliIdle

RegistryNext == CodeNamed \/ Describe \/ CodeForExtension

SpecRegistry == RegistryInit /\ [][RegistryNext]_vars

\* C8 (as claimed): AT.N for a canonical name N gives the code whose table row
\* is named N, and a name that is not canonical fails.
C8_NameGivesItsCode ==
    atQuery.op = "getattr" =>
        IF atQuery.name \in CanonicalNames
        THEN atQuery.err = "" /\ GetItem(atQuery.code).description = atQuery.name
        ELSE atQuery.err # ""

(***************************************************************************)
(* The driver: one run in pack mode, one run in unpack mode                 *)
(***************************************************************************)
Hi == <<104, 105>>

HelloTga == [key |-> KeyBytes(1), ext |-> "tga", content |-> Hi, mtime |-> 7200]

SourceFiles ==
    { HelloTga,
      [key |-> KeyBytes(1), ext |-> "img_tga", content |-> Hi, mtime |-> 7200],
      [key |-> KeyBytes(2), ext |-> "jpeg", content |-> MakePayload(3, 7), mtime |-> 7300],
      [key |-> KeyBytes(2), ext |-> "", content |-> MakePayload(1, 7), mtime |-> 7300] }

\* the local zone's offset from UTC, in seconds
ZoneOffsets == {0, 3600}

\* the files to pack, in the order the path map names them
Scenarios ==
    {<<f>> : f \in SourceFiles} \cup {<<f, g>> : f \in SourceFiles, g \in SourceFiles}

\* the loop of vfs.add calls in pack mode, from file i on; it ends at the first
\* call that raises
RECURSIVE PackFrom(_, _, _, _, _)
PackFrom(files, i, index, data, pos) ==
    IF i > Len(files) THEN [index |-> index, data |-> data, err |-> ""]
    ELSE LET f   == files[i]
             eff == AddEffect(data, pos, f.key, FromFileExtension(f.ext), f.content,
                              f.mtime)
         IN  IF eff.ok
             THEN PackFrom(files, i + 1, index \o eff.rec, eff.data, eff.pos)
             ELSE [index |-> index, data |-> eff.data, err |-> "struct.error"]

\* the loop over the entries in unpack mode, from entry i on
RECURSIVE UnpackFrom(_, _, _, _)
UnpackFrom(entries, i, out, tz) ==
    IF i > Len(entries) THEN [out |-> out, err |-> ""]
    ELSE LET e == entries[i]
         IN  IF e.filetype \notin CodeSet
             THEN [out |-> out, err |-> "KeyError"]
             ELSE UnpackFrom(entries, i + 1,
                    Append(out, [key |-> e.key,
                                 ext |-> AssetType(e.filetype).typename,
                                 content |-> ReadAt(dataDisk, e.offset, EntrySize(e)),
                                 \* utcfromtimestamp, then timestamp() of a naive datetime
                                 mtime |-> e.accesstime - tz]),
                    tz)

\* the script in pack mode
PackRun ==
    /\ cli.phase = "start"
    /\ diskExists' = TRUE
    /\ IF cli.useMap
       THEN LET res == PackFrom(cli.files, 1, <<>>, <<>>, 0)
            IN  /\ indexDisk' = res.index
                /\ dataDisk' = res.data
                /\ cli' = [cli EXCEPT !.phase = "packed", !.packErr = res.err]
       ELSE \* glob is used and never imported
            /\ indexDisk' = <<>>
            /\ dataDisk' = <<>>
            /\ cli' = [cli EXCEPT !.phase = "packed", !.packErr = "NameError"]
    /\ UNCHANGED <<vfs, ret, added, openLen, appended, calls, entry, pathMapping,
                   keyMapping, pmLast, atQuery>>

\* the script in unpack mode
UnpackRun ==
    /\ cli.phase \in {"start", "packed"}
    /\ IF ~diskExists
       THEN cli' = [cli EXCEPT !.phase = "unpacked", !.unpackErr = "exit 1"]
       ELSE IF ~IterUnpackOk(indexDisk)
       THEN cli' = [cli EXCEPT !.phase = "unpacked", !.unpackErr = "struct.error"]
       ELSE LET res == UnpackFrom(LoadEntries(indexDisk), 1, <<>>, cli.tz)
            IN  cli' = [cli EXCEPT !.phase = "unpacked", !.unpackErr = res.err,
                                   !.out = res.out]
    /\ UNCHANGED <<storeVars, entry, pathMapping, keyMapping, pmLast, atQuery>>

CliInit ==
    /\ \E fs \in Scenarios, m \in BOOLEAN, z \in ZoneOffsets :
          cli = [phase |-> "start", files |-> fs, useMap |-> m, tz |-> z,
                 packErr |-> "", unpackErr |-> "", out |-> <<>>]
    /\ StoreIdle /\ EntryIdle /\ PathMapIdle /\ RegistryIdle

CliNext == PackRun \/ UnpackRun

SpecCli == CliInit /\ [][CliNext]_vars

\* C9 (as claimed): packing hello.tga holding "hi" stores one IMAGE_TGA record
\* of size 2 and length 1024, and unpacking gives back one 2-byte file "hi"
\* with the modification time kept to the second.
C9_PackUnpackHello ==
    (cli.files = <<HelloTga>> /\ cli.phase \in {"packed", "unpacked"} /\ diskExists) =>
        /\ cli.packErr = ""
        /\ Len(indexDisk) = RecordSize
        /\ Unpack(indexDisk).filetype = ImageTga
        /\ Unpack(indexDisk).size = 2
        /\ Unpack(indexDisk).length = BlockSize
        /\ cli.phase = "unpacked" =>
              /\ cli.unpackErr = ""
              /\ Len(cli.out) = 1
              /\ cli.out[1].content = Hi
              /\ cli.out[1].mtime - HelloTga.mtime \in {-1, 0, 1}

(***************************************************************************)
(* Claims about the store                                                  *)
(***************************************************************************)
PaddedLen(n) == ((n + BlockSize - 1) \div BlockSize) * BlockSize

\* C1: once a write-mode store that only saw add calls is closed and the pair is
\* loaded in read mode, the i-th entry is the i-th add that returned, and
\* reading at its offset and size gives exactly that payload.
C1_AddReloadRead ==
    /\ vfs.mode = "r" =>
          /\ Len(vfs.entries) = Len(added)
          /\ \A i \in 1..Len(vfs.entries) :
                ReadAt(dataDisk, vfs.entries[i].offset, EntrySize(vfs.entries[i]))
                    = added[i].data
    /\ (ret.op = "entryRead" /\ ret.mode = "r") =>
          /\ ret.err = ""
          /\ ret.hit \in 1..Len(added)
          /\ ret.data = added[ret.hit].data

\* C1 witness: a second entry of one block plus a byte is read back after a
\* 2-byte first one
C1_Witness ==
    /\ ret.op = "entryRead"
    /\ ret.mode = "r"
    /\ ret.hit = 2
    /\ Len(added) = 2
    /\ Len(added[1].data) = 2
    /\ Len(ret.data) = BlockSize + 1

\* C5 (as claimed): every add that returns recorded the end of the data file as
\* its offset, which is the length at open plus the padded lengths appended
\* since, whatever reads came before.
C5_AddAtEndOfFile ==
    (ret.op = "add" /\ ret.err = "") =>
        /\ ret.offset = ret.eof
        /\ ret.offset = openLen + appended - PaddedLen(ret.size)
        /\ Unpack(SubSeq(indexDisk, Len(indexDisk) - RecordSize + 1, Len(indexDisk))).offset
               = ret.eof

C7_AppendOpens ==
    (ret.op = "open" /\ ret.mode = "a" /\ ret.existed) =>
        /\ ret.err = ""
        /\ vfs.mode = "a"
        /\ vfs.entries = LoadEntries(indexDisk)

\* C10 (as claimed): read gives exactly size bytes or fails with ShortRead.
C10_ExactOrShortRead ==
    (ret.op = "read" /\ ret.mode = "r") =>
        \/ ret.err = "" /\ Len(ret.data) = ret.size
        \/ ret.err = "ShortRead" /\ ret.eof < ret.offset + ret.size

\* C10 (amended): on a store opened for reading, read never fails; it gives the
\* bytes of the data file from offset on, size of them or as many as the file
\* still holds when those are fewer.
C10_ReadUpToSize ==
    (ret.op = "read" /\ ret.mode = "r") =>
        /\ ret.err = ""
        /\ Len(ret.data) = Min(ret.size, Max(0, Len(dataDisk) - ret.offset))
        /\ \A j \in 1..Len(ret.data) : ret.data[j] = dataDisk[ret.offset + j]

\* C10 witness: a read came back with some bytes, but fewer than were asked for
C10_Witness ==
    /\ ret.op = "read"
    /\ ret.mode = "r"
    /\ ret.err = ""
    /\ Len(ret.data) > 0
    /\ Len(ret.data) < ret.size

====
